---- MODULE Spec2Model ----
(***************************************************************************)
(* Model of the reminder scheduler of functions/src/index.ts:               *)
(* processReminders -> getDaysUntilEvent -> offset selection ->             *)
(* sendNotifications (ledger check, channel send, ledger write).            *)
(*                                                                          *)
(* Each await of the code is one step of a run, so that two scheduler       *)
(* invocations interleave at exactly the points where the code yields.      *)
(* Store calls (Firestore get/set) and provider calls (Twilio, Resend) may  *)
(* succeed or throw.  Dates are day numbers since 1970-01-01; the process   *)
(* timezone is taken to be UTC, so local midnight and the ISO day string    *)
(* name the same civil day.                                                 *)
(***************************************************************************)
EXTENDS Integers, Sequences, FiniteSets, TLC

(***************************************************************************)
(* Bounds of the model.                                                     *)
(***************************************************************************)
\* number of day changes (Tick) the clock may make after the first day
MaxDays == 1
\* how many external calls (store or provider) may throw in one behaviour
MaxFaults == 1
\* how many scheduler invocations may be started in one behaviour
MaxRuns == 2

(***************************************************************************)
(* Gregorian calendar (what JS Date does for local dates in UTC).           *)
(***************************************************************************)
\* new Date(y, m, d) as a day number; like JS, a day past the end of the
\* month runs over into the next month (Feb 29 of a common year is Mar 1)
DaysFromCivil(y, m, d) ==
    LET yy  == IF m <= 2 THEN y - 1 ELSE y
        era == yy \div 400
        yoe == yy - era * 400
        mp  == IF m > 2 THEN m - 3 ELSE m + 9
        doy == (153 * mp + 2) \div 5
        doe == yoe * 365 + yoe \div 4 - yoe \div 100 + doy
    IN  era * 146097 + doe - 719468 + (d - 1)

\* getFullYear / getMonth+1 / getDate of a day number
CivilFromDays(n) ==
    LET z   == n + 719468
        era == z \div 146097
        doe == z - era * 146097
        yoe == (doe - doe \div 1460 + doe \div 36524 - doe \div 146096) \div 365
        doy == doe - (365 * yoe + yoe \div 4 - yoe \div 100)
        mp  == (5 * doy + 2) \div 153
        d   == doy - (153 * mp + 2) \div 5 + 1
        m   == IF mp < 10 THEN mp + 3 ELSE mp - 9
    IN  [y |-> IF m <= 2 THEN yoe + era * 400 + 1 ELSE yoe + era * 400,
         m |-> m, d |-> d]

Pad2(n) == IF n < 10 THEN "0" \o ToString(n) ELSE ToString(n)

\* today.toISOString().split('T')[0]
IsoDay(n) ==
    LET c == CivilFromDays(n)
    IN  ToString(c.y) \o "-" \o Pad2(c.m) \o "-" \o Pad2(c.d)

(***************************************************************************)
(* Hebrew calendar, as @hebcal/core's HDate computes it (months numbered    *)
(* 1 = Nisan ... 7 = Tishrei ... 12 = Adar / Adar I, 13 = Adar II).         *)
(***************************************************************************)
HebrewEpoch == -1373428
\* R.D. day number of 1970-01-01
UnixEpochRD == 719163

isLeapYear(year) == (1 + 7 * year) % 19 < 7

monthsInYear(year) == IF isLeapYear(year) THEN 13 ELSE 12

\* days from the calendar's epoch to 1 Tishrei of the year
elapsedDays(year) ==
    LET prevYear == year - 1
        mElapsed == 235 * (prevYear \div 19) + 12 * (prevYear % 19)
                    + ((prevYear % 19) * 7 + 1) \div 19
        pElapsed == 204 + 793 * (mElapsed % 1080)
        hElapsed == 5 + 12 * mElapsed + 793 * (mElapsed \div 1080)
                    + pElapsed \div 1080
        parts    == (pElapsed % 1080) + 1080 * (hElapsed % 24)
        day      == 1 + 29 * mElapsed + hElapsed \div 24
        altDay   == IF \/ parts >= 19440
                       \/ (day % 7 = 2 /\ parts >= 9924 /\ ~isLeapYear(year))
                       \/ (day % 7 = 1 /\ parts >= 16789 /\ isLeapYear(prevYear))
                    THEN day + 1 ELSE day
    IN  IF altDay % 7 \in {0, 3, 5} THEN altDay + 1 ELSE altDay

daysInYear(year) == elapsedDays(year + 1) - elapsedDays(year)

daysInMonth(month, year) ==
    IF month \in {2, 4, 6, 10, 13} THEN 29
    ELSE IF month = 12 /\ ~isLeapYear(year) THEN 29
    ELSE IF month = 8 /\ daysInYear(year) % 10 # 5 THEN 29
    ELSE IF month = 9 /\ daysInYear(year) % 10 = 3 THEN 29
    ELSE 30

RECURSIVE SumMonths(_, _, _)
\* days of the months from..to of the year
SumMonths(from, to, year) ==
    IF from > to THEN 0
    ELSE daysInMonth(from, year) + SumMonths(from + 1, to, year)

\* R.D. day number of a Hebrew date
hebrew2abs(year, month, day) ==
    LET before == IF month < 7
                  THEN SumMonths(7, monthsInYear(year), year)
                       + SumMonths(1, month - 1, year)
                  ELSE SumMonths(7, month - 1, year)
    IN  HebrewEpoch + elapsedDays(year) + day + before - 1

\* a mutation of HebrewYearOf: the Hebrew year that started in the previous
\* Gregorian year, whatever the day
HebrewYearOfCivil(n) == CivilFromDays(n).y + 3760

\* new HDate(date).getFullYear(): the year whose 1 Tishrei is the last one
\* on or before the day
HebrewYearOf(n) ==
    LET abs == n + UnixEpochRD
        gy  == CivilFromDays(n).y
    IN  IF HebrewEpoch + elapsedDays(gy + 3761) <= abs
        THEN gy + 3761 ELSE gy + 3760

\* new HDate(day, month, year).greg() as a day number; a month 13 of a
\* common year is read as month 12
HDateGreg(day, month, year) ==
    LET mm == IF month = 13 /\ ~isLeapYear(year) THEN 12 ELSE month
    IN  hebrew2abs(year, mm, day) - UnixEpochRD

(***************************************************************************)
(* The stored data the scheduler reads.  Events and users are read-only     *)
(* input of the core.  An absent optional field is the empty sequence, a    *)
(* present one a sequence of length one; an absent (falsy) string is "".    *)
(***************************************************************************)
Slots == {"morning", "afternoon", "evening"}

\* the first day of the model's clock: 2024-06-14
Day0 == DaysFromCivil(2024, 6, 14)

Rule(d, s) == [daysBefore |-> d, timeOfDay |-> s]

\* the documents of the 'events' collection, in snapshot order
events ==
    << [id |-> "a", userId |-> "u1", title |-> "Dana's birthday",
        gregorianDate |-> << [y |-> 2023, m |-> 6, d |-> 18] >>,
        useHebrewDate |-> FALSE, hebrewDate |-> << >>,
        isRecurring |-> TRUE, reminderConfig |-> << >>],
       [id |-> "b", userId |-> "", title |-> "Orphan",
        gregorianDate |-> << [y |-> 2020, m |-> 6, d |-> 15] >>,
        useHebrewDate |-> FALSE, hebrewDate |-> << >>,
        isRecurring |-> TRUE, reminderConfig |-> << >>],
       [id |-> "c", userId |-> "u1", title |-> "Yahrzeit",
        gregorianDate |-> << [y |-> 2024, m |-> 6, d |-> 15] >>,
        useHebrewDate |-> TRUE,
        hebrewDate |-> << [day |-> 9, month |-> 3, year |-> 5784] >>,
        isRecurring |-> TRUE,
        reminderConfig |-> << [isEnabled |-> TRUE,
                               reminders |-> << Rule(0, "morning"),
                                                Rule(1, "evening") >>] >>],
       [id |-> "d", userId |-> "u2", title |-> "Anniversary",
        gregorianDate |-> << [y |-> 2019, m |-> 6, d |-> 14] >>,
        useHebrewDate |-> FALSE, hebrewDate |-> << >>,
        isRecurring |-> TRUE, reminderConfig |-> << >>] >>

User(email, phone, methods) ==
    [email |-> email, phone |-> phone, notificationMethods |-> methods]

\* the configurations the process may run in: the contents of the 'users'
\* collection (user u2 has no record) and whether RESEND_API_KEY is set
Configs ==
    { [users |-> [u \in {"u1"} |->
                    User("dana@example.com", "", << <<"email", "sms">> >>)],
       resendKey |-> TRUE],
      [users |-> [u \in {"u1"} |->
                    User("dana@example.com", "+15550001",
                         << <<"email", "whatsapp">> >>)],
       resendKey |-> TRUE],
      [users |-> [u \in {"u1"} |->
                    User("dana@example.com", "+15550001",
                         << <<"email", "whatsapp">> >>)],
       resendKey |-> FALSE],
      [users |-> [u \in {"u1"} |->
                    User("dana@example.com", "+15550001", << >>)],
       resendKey |-> TRUE] }

(***************************************************************************)
(* Pure helpers of index.ts.                                                *)
(***************************************************************************)
\* a mutation of getDaysUntilEvent: the year of the stored date is kept
getDaysUntilEventLiteral(event, today) ==
    IF event.useHebrewDate /\ event.hebrewDate # << >>
    THEN LET hd == event.hebrewDate[1]
         IN  HDateGreg(hd.day, hd.month, hd.year) - today
    ELSE LET eventDate == event.gregorianDate[1]
         IN  DaysFromCivil(eventDate.y, eventDate.m, eventDate.d) - today

\* getDaysUntilEvent(event, today); Math.floor of a whole number of days
getDaysUntilEvent(event, today) ==
    IF event.useHebrewDate /\ event.hebrewDate # << >>
    THEN LET currentYearHebrew == HebrewYearOf(today)
             hd == event.hebrewDate[1]
         IN  HDateGreg(hd.day, hd.month, currentYearHebrew) - today
    ELSE LET eventDate == event.gregorianDate[1]
         IN  DaysFromCivil(CivilFromDays(today).y, eventDate.m, eventDate.d)
             - today

\* a mutation of FallbackDays: every slot is given the morning offsets
FallbackDaysSame(timeOfDay) == <<3, 1, 0>>

\* the fallbackDaysToCheck each scheduled function passes
FallbackDays(timeOfDay) ==
    IF timeOfDay = "morning" THEN <<3, 1, 0>> ELSE <<0>>

RECURSIVE FilterMap(_, _)
\* reminders.filter(r => r.timeOfDay === timeOfDay).map(r => r.daysBefore)
FilterMap(reminders, timeOfDay) ==
    IF reminders = << >> THEN << >>
    ELSE LET r == Head(reminders)
             rest == FilterMap(Tail(reminders), timeOfDay)
         IN  IF r.timeOfDay = timeOfDay THEN <<r.daysBefore>> \o rest ELSE rest

\* a mutation of daysToCheck: the rules are not filtered by slot
daysToCheckAnySlot(event, timeOfDay) ==
    IF /\ event.reminderConfig # << >>
       /\ event.reminderConfig[1].isEnabled
       /\ Len(event.reminderConfig[1].reminders) > 0
    THEN [i \in 1..Len(event.reminderConfig[1].reminders) |->
             event.reminderConfig[1].reminders[i].daysBefore]
    ELSE FallbackDays(timeOfDay)

\* a mutation of daysToCheck: the rules are used whether enabled or not
daysToCheckIgnoreEnabled(event, timeOfDay) ==
    IF /\ event.reminderConfig # << >>
       /\ Len(event.reminderConfig[1].reminders) > 0
    THEN FilterMap(event.reminderConfig[1].reminders, timeOfDay)
    ELSE FallbackDays(timeOfDay)

\* the daysToCheck of processReminders for one event
daysToCheck(event, timeOfDay) ==
    IF /\ event.reminderConfig # << >>
       /\ event.reminderConfig[1].isEnabled
       /\ Len(event.reminderConfig[1].reminders) > 0
    THEN FilterMap(event.reminderConfig[1].reminders, timeOfDay)
    ELSE FallbackDays(timeOfDay)

\* daysToCheck.includes(daysUntil)
Includes(seq, x) == \E i \in 1..Len(seq) : seq[i] = x

\* a mutation of generateMessage: the 'today' text ignores the time of day
generateMessageNoSlot(event, daysUntil, timeOfDay) ==
    LET eventName == event.title
    IN  IF daysUntil = 3
        THEN "Heads up! " \o eventName \o " is in 3 days. Start planning!"
        ELSE IF daysUntil = 1
        THEN "Reminder: " \o eventName \o " is TOMORROW! Don't forget!"
        ELSE IF daysUntil = 0
        THEN "Good morning! Today is " \o eventName
             \o "! Have a wonderful day!"
        ELSE "Reminder: " \o eventName \o " is coming up in "
             \o ToString(daysUntil) \o " days."

\* generateMessage(event, daysUntil, timeOfDay), without the leading emoji
generateMessage(event, daysUntil, timeOfDay) ==
    LET eventName == event.title
    IN  IF daysUntil = 3
        THEN "Heads up! " \o eventName \o " is in 3 days. Start planning!"
        ELSE IF daysUntil = 1
        THEN "Reminder: " \o eventName \o " is TOMORROW! Don't forget!"
        ELSE IF daysUntil = 0
        THEN IF timeOfDay = "morning"
             THEN "Good morning! Today is " \o eventName
                  \o "! Have a wonderful day!"
             ELSE IF timeOfDay = "afternoon"
             THEN "Afternoon reminder: It's " \o eventName
                  \o " today! Hope it's going great!"
             ELSE "Evening check-in: " \o eventName
                  \o " is today! Hope you celebrated well!"
        ELSE "Reminder: " \o eventName \o " is coming up in "
             \o ToString(daysUntil) \o " days."

\* a mutation of logKey: the key leaves out the day
logKeyNoDay(eventId, daysUntil, timeOfDay, method, today) ==
    eventId \o "_" \o ToString(daysUntil) \o "_" \o timeOfDay \o "_"
    \o method

\* a mutation of logKey: the key leaves out the method
logKeyNoMethod(eventId, daysUntil, timeOfDay, method, today) ==
    eventId \o "_" \o ToString(daysUntil) \o "_" \o timeOfDay \o "_"
    \o IsoDay(today)

\* the logKey template string of sendNotifications
logKey(eventId, daysUntil, timeOfDay, method, today) ==
    eventId \o "_" \o ToString(daysUntil) \o "_" \o timeOfDay \o "_"
    \o method \o "_" \o IsoDay(today)

\* userData.preferences?.notificationMethods || ['whatsapp']
Methods(userData) ==
    IF userData.notificationMethods = << >> THEN <<"whatsapp">>
    ELSE userData.notificationMethods[1]

\* the destination the switch of sendNotifications tests for a method
Destination(userData, method) ==
    IF method = "email" THEN userData.email
    ELSE IF method \in {"sms", "whatsapp"} THEN userData.phone
    ELSE ""

(***************************************************************************)
(* State.                                                                   *)
(***************************************************************************)
\* the invocations of processReminders that may be in flight at once
Runs == {"r1", "r2"}

VARIABLES
    now,          \* the current day (day number) of the process clock
    users,        \* the 'users' collection: userId -> user record
    resendKey,    \* whether RESEND_API_KEY is configured
    ledger,       \* the 'notificationLogs' collection: logKey -> entry
    pc,           \* per run: the await the run is at
    timeOfDay,    \* per run: the slot argument of processReminders
    today,        \* per run: the local `today` of processReminders
    ei,           \* per run: index of the event of the for loop
    mi,           \* per run: index of the method of the for loop
    daysUntil,    \* per run: the local `daysUntil` of the loop body
    key,          \* per run: the local `logKey` of the method loop
    err,          \* per run: the error caught by the catch block
    \* history, not read by the code:
    oks,          \* logKey -> number of provider calls that returned
    overlapped,   \* some run was started while another was in flight
    storeFaults,  \* number of store calls that threw
    sendFaults,   \* number of provider calls that threw
    runsStarted,  \* number of runs started
    probe         \* the last application of a pure helper to drawn inputs

vars == <<now, users, resendKey, ledger, pc, timeOfDay, today, ei, mi,
          daysUntil, key, err, oks, overlapped,
          storeFaults, sendFaults, runsStarted, probe>>

Active(r) == pc[r] \notin {"idle", "done", "aborted"}

\* the loop variables of a run
Event(r) == events[ei[r]]
UserData(r) == users[Event(r).userId]
Method(r) == Methods(UserData(r))[mi[r]]
Message(r) == generateMessage(Event(r), daysUntil[r], timeOfDay[r])

Count(f, k) == IF k \in DOMAIN f THEN f[k] ELSE 0
Bump(f, k) == (k :> (Count(f, k) + 1)) @@ f

Init ==
    /\ now = Day0
    /\ \E c \in Configs : users = c.users /\ resendKey = c.resendKey
    /\ ledger = << >>
    /\ pc = [r \in Runs |-> "idle"]
    /\ timeOfDay = [r \in Runs |-> "morning"]
    /\ today = [r \in Runs |-> Day0]
    /\ ei = [r \in Runs |-> 1]
    /\ mi = [r \in Runs |-> 1]
    /\ daysUntil = [r \in Runs |-> 0]
    /\ key = [r \in Runs |-> ""]
    /\ err = [r \in Runs |-> ""]
    /\ oks = << >>
    /\ overlapped = FALSE
    /\ storeFaults = 0
    /\ sendFaults = 0
    /\ runsStarted = 0
    /\ probe = [op |-> "none"]

(***************************************************************************)
(* Outcomes of the external and the control flow of the loops.       *)
(***************************************************************************)
\* a store call (Firestore get or set) throws
StoreThrows ==
    /\ storeFaults + sendFaults < MaxFaults
    /\ storeFaults' = storeFaults + 1

StoreOk == UNCHANGED storeFaults

\* the invocation returns or throws: its locals are gone
Ended(r, how) ==
    /\ pc' = [pc EXCEPT ![r] = how]
    /\ timeOfDay' = [timeOfDay EXCEPT ![r] = "morning"]
    /\ today' = [today EXCEPT ![r] = Day0]
    /\ ei' = [ei EXCEPT ![r] = 1]
    /\ mi' = [mi EXCEPT ![r] = 1]
    /\ daysUntil' = [daysUntil EXCEPT ![r] = 0]
    /\ key' = [key EXCEPT ![r] = ""]
    /\ err' = [err EXCEPT ![r] = ""]

\* an exception that no catch block of the run handles ends the invocation
Abort(r) == Ended(r, "aborted")

\* a mutation of IsDue: every event with an owner is taken to be due
IsDueAlways(event, slot, du) == TRUE

\* daysToCheck.includes(daysUntil)
IsDue(event, slot, du) == Includes(daysToCheck(event, slot), du)

\* event.gregorianDate.toDate() throws a TypeError for an event that takes
\* the else branch of getDaysUntilEvent and has no gregorianDate
DaysUntilThrows(event) ==
    /\ ~(event.useHebrewDate /\ event.hebrewDate # << >>)
    /\ event.gregorianDate = << >>

RECURSIVE LoopHead(_, _, _, _)
\* the for loop over the events evs from index i up to its first await: the
\* index of the first event that passes the two `continue` tests at the head
\* of the loop body, Len(evs) + 1 if there is none, 0 if getDaysUntilEvent
\* throws on the way (the loop body has no try block)
LoopHead(evs, i, slot, day) ==
    IF i > Len(evs) THEN i
    ELSE IF evs[i].userId = "" THEN LoopHead(evs, i + 1, slot, day)
    ELSE IF DaysUntilThrows(evs[i]) THEN 0
    ELSE IF IsDue(evs[i], slot, getDaysUntilEvent(evs[i], day)) THEN i
    ELSE LoopHead(evs, i + 1, slot, day)

\* the loop head over the stored events
NextDueFrom(i, slot, day) == LoopHead(events, i, slot, day)

\* the event loop from index i up to its next await: the events without an
\* owner and those not due are passed over synchronously; the loop stops at
\* the read of the owner's user record, or ends, or throws
GoToEvent(r, i, slot, day) ==
    LET j == NextDueFrom(i, slot, day)
    IN  IF j = 0
        THEN Abort(r)
        ELSE IF j > Len(events)
        THEN Ended(r, "done")
        ELSE /\ ei' = [ei EXCEPT ![r] = j]
             /\ mi' = [mi EXCEPT ![r] = 1]
             /\ daysUntil' = [daysUntil EXCEPT ![r] =
                                 getDaysUntilEvent(events[j], day)]
             /\ key' = [key EXCEPT ![r] = ""]
             /\ err' = [err EXCEPT ![r] = ""]
             /\ pc' = [pc EXCEPT ![r] = "user"]
             /\ timeOfDay' = [timeOfDay EXCEPT ![r] = slot]
             /\ today' = [today EXCEPT ![r] = day]

\* `continue` / end of the body of the event loop
NextEvent(r) == GoToEvent(r, ei[r] + 1, timeOfDay[r], today[r])

\* the head of the method loop for the method at index i: the logKey is built
EnterMethod(r, i) ==
    /\ mi' = [mi EXCEPT ![r] = i]
    /\ key' = [key EXCEPT ![r] =
                  logKey(Event(r).id, daysUntil[r], timeOfDay[r],
                         Methods(UserData(r))[i], today[r])]
    /\ err' = [err EXCEPT ![r] = ""]
    /\ pc' = [pc EXCEPT ![r] = "check"]
    /\ UNCHANGED <<ei, daysUntil, timeOfDay, today>>

\* a mutation of NextMethod: the method loop is left after one method
NextMethodBreak(r) == NextEvent(r)

\* `continue` / end of the body of the method loop
NextMethod(r) ==
    IF mi[r] + 1 > Len(Methods(UserData(r)))
    THEN NextEvent(r)
    ELSE EnterMethod(r, mi[r] + 1)

\* a mutation of Caught: the error is not caught and ends the invocation
Uncaught(r, error) == Abort(r)

\* where a throw inside the try block continues: the catch block
Caught(r, error) ==
    /\ pc' = [pc EXCEPT ![r] = "logFail"]
    /\ err' = [err EXCEPT ![r] = error]
    /\ UNCHANGED <<ei, mi, daysUntil, key, timeOfDay, today>>

(***************************************************************************)
(* processReminders.                                                        *)
(***************************************************************************)
\* the clock of the process passes midnight.  A run reads the clock once,
\* at its start (`today`), and lasts seconds where the schedule's slots are
\* hours apart, so midnight passes while no run is in flight
Tick ==
    /\ \A r \in Runs : ~Active(r)
    /\ now < Day0 + MaxDays
    /\ now' = now + 1
    /\ UNCHANGED <<users, resendKey, ledger, pc, timeOfDay, today, ei, mi,
                   daysUntil, key, err, oks, overlapped, storeFaults,
                   sendFaults, runsStarted, probe>>

\* a scheduled function (or a manual retrigger) calls processReminders:
\* `today` is set, the events collection is read and the loop runs up to its
\* first await.  Run r2 stands for an invocation that starts while r1 is in
\* flight.
Start(r, slot) ==
    /\ ~Active(r)
    /\ r = "r2" => Active("r1")
    /\ runsStarted < MaxRuns
    /\ runsStarted' = runsStarted + 1
    /\ overlapped' = (overlapped \/ \E q \in Runs \ {r} : Active(q))
    /\ \/ /\ StoreOk
          /\ GoToEvent(r, 1, slot, now)
       \/ /\ StoreThrows
          /\ Abort(r)
    /\ UNCHANGED <<now, users, resendKey, ledger, oks, sendFaults, probe>>

\* await db.collection('users').doc(event.userId).get(), then the call of
\* sendNotifications up to its first await
GetUser(r) ==
    /\ pc[r] = "user"
    /\ \/ /\ StoreOk
          /\ IF Event(r).userId \notin DOMAIN users
             THEN NextEvent(r)
             ELSE IF Len(Methods(UserData(r))) = 0
             THEN NextEvent(r)
             ELSE EnterMethod(r, 1)
       \/ /\ StoreThrows
          /\ Abort(r)
    /\ UNCHANGED <<now, users, resendKey, ledger,
                   oks, overlapped, sendFaults,
                   runsStarted, probe>>

(***************************************************************************)
(* sendNotifications.                                                       *)
(***************************************************************************)
\* a mutation of AlreadyLogged: only a 'sent' entry counts
AlreadyLoggedSentOnly(k) == k \in DOMAIN ledger /\ ledger[k].status = "sent"

\* a mutation of AlreadyLogged: the entry is never found
AlreadyLoggedNever(k) == FALSE

\* existingLog.exists
AlreadyLogged(k) == k \in DOMAIN ledger

\* a mutation of CheckLog: a failed read is taken for "no entry"
CheckLogLenient(r) ==
    /\ pc[r] = "check"
    /\ \/ /\ StoreOk
          /\ IF AlreadyLogged(key[r])
             THEN NextMethod(r)
             ELSE /\ pc' = [pc EXCEPT ![r] = "send"]
                  /\ UNCHANGED <<timeOfDay, today, ei, mi, daysUntil, key,
                                 err>>
       \/ /\ StoreThrows
          /\ pc' = [pc EXCEPT ![r] = "send"]
          /\ UNCHANGED <<timeOfDay, today, ei, mi, daysUntil, key, err>>
    /\ UNCHANGED <<now, users, resendKey, ledger,
                   oks, overlapped, sendFaults, runsStarted, probe>>

\* await db.collection('notificationLogs').doc(logKey).get(), outside the try
CheckLog(r) ==
    /\ pc[r] = "check"
    /\ \/ /\ StoreOk
          /\ IF AlreadyLogged(key[r])
             THEN NextMethod(r)
             ELSE /\ pc' = [pc EXCEPT ![r] = "send"]
                  /\ UNCHANGED <<timeOfDay, today, ei, mi, daysUntil, key,
                                 err>>
       \/ /\ StoreThrows
          /\ Abort(r)
    /\ UNCHANGED <<now, users, resendKey, ledger,
                   oks, overlapped, sendFaults, runsStarted, probe>>

\* FieldValue.serverTimestamp(): a sentinel the server replaces by its time
ServerTimestamp == "serverTimestamp"

\* the document written after the switch
SentEntry(r) ==
    [userId |-> Event(r).userId, eventId |-> Event(r).id,
     sentAt |-> ServerTimestamp,
     method |-> Method(r), status |-> "sent", messageContent |-> Message(r),
     timeOfDay |-> timeOfDay[r], daysUntil |-> daysUntil[r]]

\* the document written by the catch block
FailedEntry(r) ==
    [userId |-> Event(r).userId, eventId |-> Event(r).id,
     sentAt |-> ServerTimestamp, method |-> Method(r), status |-> "failed",
     error |-> err[r],
     messageContent |-> Message(r)]

\* the switch over the method inside the try block: the channel's send
\* function is called only when the user has the destination it needs;
\* sendEmail throws before calling Resend when no API key is configured
Send(r) ==
    /\ pc[r] = "send"
    /\ IF Destination(UserData(r), Method(r)) = ""
       THEN /\ pc' = [pc EXCEPT ![r] = "logSent"]
            /\ UNCHANGED <<timeOfDay, today, ei, mi, daysUntil, key, err,
                           oks, sendFaults>>
       ELSE IF Method(r) = "email" /\ ~resendKey
       THEN /\ Caught(r, "Error: RESEND_API_KEY not configured")
            /\ UNCHANGED <<oks, sendFaults>>
       ELSE \/ /\ oks' = Bump(oks, key[r])
               /\ pc' = [pc EXCEPT ![r] = "logSent"]
               /\ UNCHANGED <<timeOfDay, today, ei, mi, daysUntil, key, err,
                              sendFaults>>
            \/ /\ storeFaults + sendFaults < MaxFaults
               /\ sendFaults' = sendFaults + 1
               /\ Caught(r, "Error: provider rejected the message")
               /\ UNCHANGED oks
    /\ UNCHANGED <<now, users, resendKey, ledger,
                   overlapped, storeFaults, runsStarted, probe>>

\* a mutation of LogSent: the 'sent' entry is not written
LogSentNoWrite(r) ==
    /\ pc[r] = "logSent"
    /\ NextMethod(r)
    /\ UNCHANGED <<now, users, resendKey, ledger, oks, overlapped,
                   storeFaults, sendFaults, runsStarted, probe>>

\* await ...doc(logKey).set({... status: 'sent' ...}), inside the try block
LogSent(r) ==
    /\ pc[r] = "logSent"
    /\ \/ /\ StoreOk
          /\ ledger' = (key[r] :> SentEntry(r)) @@ ledger
          /\ NextMethod(r)
       \/ /\ StoreThrows
          /\ Caught(r, "Error: store unavailable")
          /\ UNCHANGED ledger
    /\ UNCHANGED <<now, users, resendKey, oks,
                   overlapped, sendFaults, runsStarted, probe>>

\* await ...doc(logKey).set({... status: 'failed' ...}), in the catch block
LogFail(r) ==
    /\ pc[r] = "logFail"
    /\ \/ /\ StoreOk
          /\ ledger' = (key[r] :> FailedEntry(r)) @@ ledger
          /\ NextMethod(r)
       \/ /\ StoreThrows
          /\ Abort(r)
          /\ UNCHANGED ledger
    /\ UNCHANGED <<now, users, resendKey, oks,
                   overlapped, sendFaults, runsStarted, probe>>

Next ==
    \/ Tick
    \/ \E r \in Runs :
          \/ \E slot \in Slots : Start(r, slot)
          \/ GetUser(r)
          \/ CheckLog(r)
          \/ Send(r)
          \/ LogSent(r)
          \/ LogFail(r)

Spec == Init /\ [][Next]_vars

(***************************************************************************)
(* The offset selection applied to drawn events.                            *)
(***************************************************************************)
\* longest rule list drawn
MaxRules == 2

ProbeOffsets == {0, 1, 3}

ProbeRules == {Rule(d, s) : d \in ProbeOffsets, s \in Slots}

RuleLists == UNION {[1..n -> ProbeRules] : n \in 0..MaxRules}

\* an event record with the given reminderConfig field
ProbeEvent(config) ==
    [id |-> "p", userId |-> "u1", title |-> "Probe",
     gregorianDate |-> << [y |-> 2024, m |-> 6, d |-> 15] >>,
     useHebrewDate |-> FALSE, hebrewDate |-> << >>,
     isRecurring |-> TRUE, reminderConfig |-> config]

ProbeConfigs ==
    {<< >>} \cup {<< [isEnabled |-> en, reminders |-> rs] >> :
                     en \in BOOLEAN, rs \in RuleLists}

\* processReminders computes daysToCheck for a drawn event and slot
ApplyDaysToCheck ==
    /\ probe.op = "none"
    /\ \E config \in ProbeConfigs, slot \in Slots :
          probe' = [op |-> "daysToCheck", event |-> ProbeEvent(config),
                    slot |-> slot,
                    result |-> daysToCheck(ProbeEvent(config), slot)]
    /\ UNCHANGED <<now, users, resendKey, ledger, pc, timeOfDay, today, ei,
                   mi, daysUntil, key, err, oks, overlapped, storeFaults,
                   sendFaults, runsStarted>>

SpecOffsets == Init /\ [][ApplyDaysToCheck]_vars

\* a step of run r after its start: the continuation of one of its awaits
RunStep(r) ==
    GetUser(r) \/ CheckLog(r) \/ Send(r) \/ LogSent(r) \/ LogFail(r)

\* the positions of a run after a step of it
Positions == {"user", "check", "send", "logSent", "logFail", "done", "aborted"}

\* run r is resumed after an await: RunStep(r) by its effect on the position
\* of r in the two loops.  A step of Next moves the position of an active run
\* exactly when it is a RunStep of the run, and an active run always has one.
Resumes(r) ==
    /\ Active(r)
    /\ \E p \in Positions, i \in 1..Len(events), m \in 1..3 :
          /\ <<p, i, m>> # <<pc[r], ei[r], mi[r]>>
          /\ pc' = [pc EXCEPT ![r] = p]
          /\ ei' = [ei EXCEPT ![r] = i]
          /\ mi' = [mi EXCEPT ![r] = m]

\* every awaited call of a run settles (the store and the providers answer
\* or reject), and the event loop of the process then resumes the run
SpecLive ==
    Spec /\ \A r \in Runs : WF_<<pc[r], ei[r], mi[r]>>(Resumes(r))

(***************************************************************************)
(* The body of the event loop applied to drawn events and days.             *)
(***************************************************************************)
\* the drawn `today` lies in the years 2023 .. 2023 + MaxYears
MaxYears == 2
\* and at most MaxWindow days before or after an occurrence of an event
MaxWindow == 4

EvalYears == 2023..(2023 + MaxYears)

\* 15 June of the years, and 15 Tishrei of the Hebrew years that start in them
EvalAnchors ==
    {DaysFromCivil(y, 6, 15) : y \in EvalYears}
    \cup {HDateGreg(15, 7, y + 3761) : y \in EvalYears}

EvalTodays == {a + k : a \in EvalAnchors, k \in (0 - MaxWindow)..MaxWindow}

\* reminderConfig fields drawn: absent, without rules, disabled, custom
EvalConfigs ==
    { << >>,
      << [isEnabled |-> TRUE, reminders |-> << >>] >>,
      << [isEnabled |-> TRUE,
          reminders |-> << Rule(0, "morning"), Rule(1, "evening") >>] >> }

\* event documents drawn: Gregorian and Hebrew events, recurring or not, and
\* documents that lack hebrewDate or gregorianDate
EvalEvents ==
    {[id |-> "e", userId |-> "u1", title |-> "Dana's birthday",
      gregorianDate |-> g, useHebrewDate |-> uh, hebrewDate |-> h,
      isRecurring |-> rec, reminderConfig |-> cfg] :
        g \in {<< >>, << [y |-> 2023, m |-> 6, d |-> 15] >>},
        uh \in BOOLEAN,
        h \in {<< >>, << [day |-> 15, month |-> 7, year |-> 5783] >>},
        rec \in BOOLEAN,
        cfg \in EvalConfigs}

\* the body of the for loop of processReminders for one event, up to the
\* read of the user record: what becomes of the event, with the daysUntil
\* and the message computed for it
processEvent(event, slot, day) ==
    IF event.userId = ""
    THEN [outcome |-> "skipped", daysUntil |-> << >>, message |-> ""]
    ELSE IF DaysUntilThrows(event)
    THEN [outcome |-> "throws", daysUntil |-> << >>, message |-> ""]
    ELSE LET du == getDaysUntilEvent(event, day)
         IN  IF ~IsDue(event, slot, du)
             THEN [outcome |-> "skipped", daysUntil |-> <<du>>,
                   message |-> ""]
             ELSE [outcome |-> "fires", daysUntil |-> <<du>>,
                   message |-> generateMessage(event, du, slot)]

\* processReminders evaluates a drawn event on a drawn day in a slot
ApplyProcessEvent ==
    /\ probe.op = "none"
    /\ \E event \in EvalEvents, slot \in Slots, day \in EvalTodays :
          probe' = [op |-> "processEvent", event |-> event, slot |-> slot,
                    today |-> day, result |-> processEvent(event, slot, day)]
    /\ UNCHANGED <<now, users, resendKey, ledger, pc, timeOfDay, today, ei,
                   mi, daysUntil, key, err, oks, overlapped, storeFaults,
                   sendFaults, runsStarted>>

SpecEvents == Init /\ [][ApplyProcessEvent]_vars

(***************************************************************************)
(* generateMessage applied to drawn events, day counts and times of day.    *)
(***************************************************************************)
\* the drawn daysUntil lies in -MaxMessageDays .. MaxMessageDays
MaxMessageDays == 5

MessageDays == (0 - MaxMessageDays)..MaxMessageDays

\* event documents drawn: the title varies, and so does a field that
\* generateMessage does not read
MessageEvents ==
    {[id |-> i, title |-> t] :
        i \in {"a", "b"},
        t \in {"Dana's birthday", "Anniversary", "Yahrzeit", "Graduation"}}

ApplyGenerateMessage ==
    /\ probe.op = "none"
    /\ \E event \in MessageEvents, du \in MessageDays, slot \in Slots :
          probe' = [op |-> "generateMessage", event |-> event,
                    daysUntil |-> du, slot |-> slot,
                    result |-> generateMessage(event, du, slot)]
    /\ UNCHANGED <<now, users, resendKey, ledger, pc, timeOfDay, today, ei,
                   mi, daysUntil, key, err, oks, overlapped, storeFaults,
                   sendFaults, runsStarted>>

SpecMessages == Init /\ [][ApplyGenerateMessage]_vars

(***************************************************************************)
(* The logKey of sendNotifications computed by two invocations, each on     *)
(* inputs of its own.                                                       *)
(***************************************************************************)
\* the start-of-day dates drawn for `today`
KeyDates ==
    { [y |-> 2024, m |-> 6, d |-> 14], [y |-> 2024, m |-> 12, d |-> 5],
      [y |-> 2025, m |-> 1, d |-> 1] }

\* (event.id, daysUntil, timeOfDay, method, today) as sendNotifications has
\* them when it builds the key
KeyInputs ==
    [eventId : {"a", "b"}, daysUntil : {0, 1, 3}, timeOfDay : Slots,
     method : {"email", "sms", "whatsapp"}, today : KeyDates]

KeyFor(in) ==
    logKey(in.eventId, in.daysUntil, in.timeOfDay, in.method,
           DaysFromCivil(in.today.y, in.today.m, in.today.d))

\* one invocation builds the key of a delivery
ApplyLogKey ==
    /\ probe.op = "none"
    /\ \E in \in KeyInputs :
          probe' = [op |-> "logKey", first |-> in, firstKey |-> KeyFor(in)]
    /\ UNCHANGED <<now, users, resendKey, ledger, pc, timeOfDay, today, ei,
                   mi, daysUntil, key, err, oks, overlapped, storeFaults,
                   sendFaults, runsStarted>>

\* another invocation builds the key of a delivery that may be the same
ApplyLogKeyAgain ==
    /\ probe.op = "logKey"
    /\ \E in \in KeyInputs :
          probe' = [op |-> "logKeyAgain", first |-> probe.first,
                    firstKey |-> probe.firstKey,
                    second |-> in, secondKey |-> KeyFor(in)]
    /\ UNCHANGED <<now, users, resendKey, ledger, pc, timeOfDay, today, ei,
                   mi, daysUntil, key, err, oks, overlapped, storeFaults,
                   sendFaults, runsStarted>>

SpecKeys == Init /\ [][ApplyLogKey \/ ApplyLogKeyAgain]_vars

(***************************************************************************)
(* The manual test endpoints: testReminder of the functions module and the  *)
(* POST handler of the send-reminder route.  A request is handled in two    *)
(* steps: up to the await of the provider call, and from its outcome to the *)
(* response.                                                                *)
(***************************************************************************)
\* the `method` of a request: absent, the three known ones and another one
RequestMethods == { << >>, <<"email">>, <<"sms">>, <<"whatsapp">>, <<"fax">> }

\* req.query of testReminder; "" stands for an absent parameter
TestQueries ==
    [phone : {"", "+15550001"}, email : {"", "u@example.org"},
     message : {"", "hello"}, method : RequestMethods]

\* the JSON body of a POST request; "" stands for an absent field
PostBodies ==
    [to : {"", "u@example.org"}, message : {"", "hello"},
     method : RequestMethods]

\* the requests drawn while the scheduler runs
SomeQueries ==
    {q \in TestQueries : /\ q.phone # "" /\ q.email # "" /\ q.message # ""
                         /\ q.method \in { << >>, <<"email">> }}

SomeBodies ==
    {b \in PostBodies : /\ b.to # "" /\ b.message # ""
                        /\ b.method \in { << >>, <<"email">> }}

\* const { ..., method = 'whatsapp' } = ...
MethodOf(request) ==
    IF request.method = << >> THEN "whatsapp" ELSE request.method[1]

\* the case of the switch that a method selects
SwitchCase(method) ==
    IF method \in {"email", "sms"} THEN method ELSE "whatsapp"

\* result?.sid || result?.id || 'sent'
ResultId(result) == IF result # "" THEN result ELSE "sent"

\* what the provider of a channel resolves to: a message with a sid (Twilio)
\* or an id (Resend), or a body without one
ProviderResults(channel) ==
    IF channel = "email" THEN {"re_1", ""} ELSE {"SM1", ""}

\* what a handler has answered: nothing yet, a text, or a JSON body
NoResponse ==
    [status |-> 0, text |-> "", error |-> "", success |-> FALSE,
     method |-> "", result |-> ""]

SendText(status, text) == [NoResponse EXCEPT !.status = status, !.text = text]

JsonError(status, error) ==
    [NoResponse EXCEPT !.status = status, !.error = error]

JsonSuccess(method, result) ==
    [NoResponse EXCEPT !.status = 200, !.success = TRUE, !.method = method,
                       !.result = ResultId(result)]

\* a handler has answered without awaiting a provider (`early` notes whether
\* the request came before the first run of the scheduler)
Answered(op, request, failure, response) ==
    probe' = [op |-> op, phase |-> "done", request |-> request,
              channel |-> "", providerCalled |-> FALSE, failure |-> failure,
              response |-> response, early |-> (runsStarted = 0)]

\* a handler awaits the provider call of a channel
Awaiting(op, request, channel) ==
    probe' = [op |-> op, phase |-> "await", request |-> request,
              channel |-> channel, providerCalled |-> TRUE,
              failure |-> "none", response |-> NoResponse,
              early |-> (runsStarted = 0)]

\* a mutation of testReminder: the message parameter is not checked
testReminderNoCheck(queries) ==
    /\ probe.op = "none"
    /\ \E q \in queries :
          LET method == MethodOf(q)
              channel == SwitchCase(method)
          IN  IF channel = "email" /\ q.email = ""
              THEN Answered("testReminder", q, "none",
                            SendText(400, "Missing email parameter"))
              ELSE IF channel # "email" /\ q.phone = ""
              THEN Answered("testReminder", q, "none",
                            SendText(400, "Missing phone parameter"))
              ELSE IF channel = "email" /\ ~resendKey
              THEN Answered("testReminder", q, "config",
                            JsonError(500,
                                "Error: RESEND_API_KEY not configured"))
              ELSE Awaiting("testReminder", q, channel)
    /\ UNCHANGED <<now, users, resendKey, ledger, pc, timeOfDay, today, ei,
                   mi, daysUntil, key, err, oks, overlapped, storeFaults,
                   sendFaults, runsStarted>>

\* testReminder up to the await of the provider call: the checks of the
\* parameters, and sendEmail's check of RESEND_API_KEY
testReminder(queries) ==
    /\ probe.op = "none"
    /\ \E q \in queries :
          LET method == MethodOf(q)
              channel == SwitchCase(method)
          IN  IF q.message = ""
              THEN Answered("testReminder", q, "none",
                            SendText(400, "Missing message parameter"))
              ELSE IF channel = "email" /\ q.email = ""
              THEN Answered("testReminder", q, "none",
                            SendText(400, "Missing email parameter"))
              ELSE IF channel # "email" /\ q.phone = ""
              THEN Answered("testReminder", q, "none",
                            SendText(400, "Missing phone parameter"))
              ELSE IF channel = "email" /\ ~resendKey
              THEN Answered("testReminder", q, "config",
                            JsonError(500,
                                "Error: RESEND_API_KEY not configured"))
              ELSE Awaiting("testReminder", q, channel)
    /\ UNCHANGED <<now, users, resendKey, ledger, pc, timeOfDay, today, ei,
                   mi, daysUntil, key, err, oks, overlapped, storeFaults,
                   sendFaults, runsStarted>>

\* the message of the Error a provider call throws: Twilio rejects with its
\* own message, sendEmail throws the message of the Resend error
ProviderErrors(channel) ==
    IF channel = "email"
    THEN {"The domain is not verified"}
    ELSE {"The 'To' number is not a valid phone number"}

\* a mutation of testReminderReply: the delivery is also logged in the
\* ledger, under a key of the scheduler
testReminderReplyLogged ==
    /\ probe.op = "testReminder"
    /\ probe.phase = "await"
    /\ \/ \E result \in ProviderResults(probe.channel) :
             probe' = [probe EXCEPT
                          !.phase = "done",
                          !.response = JsonSuccess(MethodOf(probe.request),
                                                   result)]
       \/ \E e \in ProviderErrors(probe.channel) :
             probe' = [probe EXCEPT
                          !.phase = "done", !.failure = "provider",
                          !.response = JsonError(500, "Error: " \o e)]
    /\ ledger' = (logKey("a", 0, "morning", probe.channel, now)
                     :> [userId |-> "u1", eventId |-> "a", sentAt |-> ServerTimestamp,
                         method |-> probe.channel, status |-> "sent",
                         messageContent |-> probe.request.message,
                         timeOfDay |-> "morning", daysUntil |-> 0])
                 @@ ledger
    /\ UNCHANGED <<now, users, resendKey, pc, timeOfDay, today, ei,
                   mi, daysUntil, key, err, oks, overlapped, storeFaults,
                   sendFaults, runsStarted>>

\* testReminder from the outcome of the provider call: res.json of the
\* success, or the catch block
testReminderReply ==
    /\ probe.op = "testReminder"
    /\ probe.phase = "await"
    /\ \/ \E result \in ProviderResults(probe.channel) :
             probe' = [probe EXCEPT
                          !.phase = "done",
                          !.response = JsonSuccess(MethodOf(probe.request),
                                                   result)]
       \/ \E e \in ProviderErrors(probe.channel) :
             probe' = [probe EXCEPT
                          !.phase = "done", !.failure = "provider",
                          !.response = JsonError(500, "Error: " \o e)]
    /\ UNCHANGED <<now, users, resendKey, ledger, pc, timeOfDay, today, ei,
                   mi, daysUntil, key, err, oks, overlapped, storeFaults,
                   sendFaults, runsStarted>>

\* process.env of the route: the Twilio credentials, the messaging service,
\* the Twilio phone number and the Resend key, each set or not
RouteEnvs ==
    [twilio : BOOLEAN, messagingServiceSid : BOOLEAN,
     twilioPhoneNumber : BOOLEAN, resendApiKey : BOOLEAN]

\* the Error a send helper of the route throws before it calls the provider,
\* "" if it throws none
RouteConfigError(channel, env) ==
    IF channel = "email"
    THEN IF ~env.resendApiKey
         THEN "Email not configured. Set RESEND_API_KEY in environment."
         ELSE ""
    ELSE IF ~env.twilio
    THEN "Twilio credentials not configured"
    ELSE IF /\ channel = "sms"
            /\ ~env.messagingServiceSid
            /\ ~env.twilioPhoneNumber
    THEN "No Twilio phone number configured for SMS"
    ELSE ""

\* error.message || 'Failed to send message'
RouteError(message) ==
    IF message # "" THEN message ELSE "Failed to send message"

\* POST up to the await of the provider call: request.json(), the check of
\* the fields, and the configuration checks of the send helpers
POST(bodies) ==
    /\ probe.op = "none"
    /\ \/ \E b \in bodies : \E env \in RouteEnvs :
             LET method == MethodOf(b)
                 channel == SwitchCase(method)
             IN  IF b.to = "" \/ b.message = ""
                 THEN Answered("POST", b, "none",
                          JsonError(400,
                              "Missing required fields: to, message"))
                 ELSE IF RouteConfigError(channel, env) # ""
                 THEN Answered("POST", b, "config",
                          JsonError(500,
                              RouteError(RouteConfigError(channel, env))))
                 ELSE Awaiting("POST", b, channel)
       \/ \* request.json() rejects: the body is not JSON
          Answered("POST", [to |-> "", message |-> "", method |-> << >>],
                   "body", JsonError(500, RouteError("Unexpected token")))
    /\ UNCHANGED <<now, users, resendKey, ledger, pc, timeOfDay, today, ei,
                   mi, daysUntil, key, err, oks, overlapped, storeFaults,
                   sendFaults, runsStarted>>

\* POST from the outcome of the provider call: the success response, or the
\* catch block
POSTReply ==
    /\ probe.op = "POST"
    /\ probe.phase = "await"
    /\ \/ \E result \in ProviderResults(probe.channel) :
             probe' = [probe EXCEPT
                          !.phase = "done",
                          !.response = JsonSuccess(MethodOf(probe.request),
                                                   result)]
       \/ \E e \in ProviderErrors(probe.channel) \cup {""} :
             probe' = [probe EXCEPT
                          !.phase = "done", !.failure = "provider",
                          !.response = JsonError(500, RouteError(e))]
    /\ UNCHANGED <<now, users, resendKey, ledger, pc, timeOfDay, today, ei,
                   mi, daysUntil, key, err, oks, overlapped, storeFaults,
                   sendFaults, runsStarted>>

\* requests of every shape, with no scheduler run
NextRequests ==
    \/ testReminder(TestQueries)
    \/ testReminderReply
    \/ POST(PostBodies)
    \/ POSTReply

SpecRequests == Init /\ [][NextRequests]_vars

\* the invocations of the scheduler one after another, and a request at any
\* moment of them
NextTest ==
    \/ Tick
    \/ \E slot \in Slots : Start("r1", slot)
    \/ GetUser("r1")
    \/ CheckLog("r1")
    \/ Send("r1")
    \/ LogSent("r1")
    \/ LogFail("r1")
    \/ testReminder(SomeQueries)
    \/ testReminderReply
    \/ POST(SomeBodies)
    \/ POSTReply

SpecTest == Init /\ [][NextTest]_vars

(***************************************************************************)
(* getNextHebrewOccurrence of the hebrew-calendar library file, in its two  *)
(* versions, applied to drawn day/month pairs on drawn days.                *)
(***************************************************************************)
\* a mutation of getNextHebrewOccurrence: the occurrence of the current
\* Hebrew year, passed or not
getNextHebrewOccurrenceThisYear(day, month, nowDay) ==
    HDateGreg(day, month, HebrewYearOf(nowDay))

\* the version that compares the Gregorian dates: nowDay is the day of
\* `new HDate()`
getNextHebrewOccurrence(day, month, nowDay) ==
    LET currentHebrewYear == HebrewYearOf(nowDay)
        nextGreg == HDateGreg(day, month, currentHebrewYear)
        todayGreg == nowDay
    IN  IF nextGreg < todayGreg
        THEN HDateGreg(day, month, currentHebrewYear + 1)
        ELSE nextGreg

\* what nextHd.before(now.prev()) can do: HDate.before takes a day of the
\* week and returns an HDate, so with an HDate as argument the call either
\* returns an object, which the if takes as true, or throws
BeforeOutcomes == {"object", "throws"}

\* the version that tests nextHd.before(now.prev())
getNextHebrewOccurrenceBefore(day, month, nowDay, before) ==
    LET currentHebrewYear == HebrewYearOf(nowDay)
    IN  IF before = "throws"
        THEN [outcome |-> "throws", date |-> << >>]
        ELSE [outcome |-> "returns",
              date |-> << HDateGreg(day, month, currentHebrewYear + 1) >>]

\* the day/month pairs drawn, and the days on which the function is called:
\* at most MaxWindow days from an occurrence of the pair in the years drawn
OccurrenceDays == {1, 15, 29, 30}
OccurrenceMonths == 1..13

ApplyGetNextHebrewOccurrence ==
    /\ probe.op = "none"
    /\ \E day \in OccurrenceDays, month \in OccurrenceMonths,
          y \in EvalYears, k \in (0 - MaxWindow)..MaxWindow :
          LET nowDay == HDateGreg(day, month, y + 3761) + k
          IN  probe' = [op |-> "getNextHebrewOccurrence", day |-> day,
                        month |-> month, today |-> nowDay,
                        result |-> [outcome |-> "returns",
                                    date |-> << getNextHebrewOccurrence(
                                                   day, month, nowDay) >>]]
    /\ UNCHANGED <<now, users, resendKey, ledger, pc, timeOfDay, today, ei,
                   mi, daysUntil, key, err, oks, overlapped, storeFaults,
                   sendFaults, runsStarted>>

ApplyGetNextHebrewOccurrenceBefore ==
    /\ probe.op = "none"
    /\ \E day \in OccurrenceDays, month \in OccurrenceMonths,
          y \in EvalYears, k \in (0 - MaxWindow)..MaxWindow,
          before \in BeforeOutcomes :
          LET nowDay == HDateGreg(day, month, y + 3761) + k
          IN  probe' = [op |-> "getNextHebrewOccurrenceBefore", day |-> day,
                        month |-> month, today |-> nowDay,
                        result |-> getNextHebrewOccurrenceBefore(
                                      day, month, nowDay, before)]
    /\ UNCHANGED <<now, users, resendKey, ledger, pc, timeOfDay, today, ei,
                   mi, daysUntil, key, err, oks, overlapped, storeFaults,
                   sendFaults, runsStarted>>

SpecOccurrence ==
    Init /\ [][ApplyGetNextHebrewOccurrence
               \/ ApplyGetNextHebrewOccurrenceBefore]_vars

(***************************************************************************)
(* toGregorianDate and toHebrewDate of the hebrew-calendar library file,    *)
(* applied one after the other to drawn Hebrew dates.                       *)
(***************************************************************************)
RECURSIVE MonthOfAbs(_, _, _)
\* the month loop of new HDate(date): the first month, from `month` on,
\* whose last day is not before the day
MonthOfAbs(abs, month, year) ==
    IF abs > hebrew2abs(year, month, daysInMonth(month, year))
    THEN MonthOfAbs(abs, month + 1, year)
    ELSE month

\* new HDate(date): the Hebrew date of an R.D. day number
abs2hebrew(abs) ==
    LET year == HebrewYearOf(abs - UnixEpochRD)
        first == IF abs < hebrew2abs(year, 1, 1) THEN 7 ELSE 1
        month == MonthOfAbs(abs, first, year)
    IN  [yy |-> year, mm |-> month,
         dd |-> 1 + abs - hebrew2abs(year, month, 1)]

\* toHebrewDate(date), without the month's name
toHebrewDate(date) ==
    LET hd == abs2hebrew(date + UnixEpochRD)
    IN  [day |-> hd.dd, month |-> hd.mm, year |-> hd.yy,
         isLeapYear |-> isLeapYear(hd.yy)]

\* a mutation of toGregorianDate: a month 13 of a common year is not read
\* as month 12
toGregorianDateAsGiven(hebrewDate) ==
    hebrew2abs(hebrewDate.year, hebrewDate.month, hebrewDate.day)
    - UnixEpochRD

\* toGregorianDate(hebrewDate), as a day number
toGregorianDate(hebrewDate) ==
    HDateGreg(hebrewDate.day, hebrewDate.month, hebrewDate.year)

\* the Hebrew dates drawn: every day of every month of the Hebrew years that
\* end in the years drawn, and the days of a month 13 in the common years
RoundTripYears == {y + 3760 : y \in EvalYears}

RoundTripDates ==
    {hd \in [day : 1..30, month : 1..13, year : RoundTripYears] :
        hd.day <= daysInMonth(hd.month, hd.year)}

ApplyRoundTrip ==
    /\ probe.op = "none"
    /\ \E hd \in RoundTripDates :
          probe' = [op |-> "roundTrip", hebrewDate |-> hd,
                    gregorian |-> toGregorianDate(hd),
                    result |-> toHebrewDate(toGregorianDate(hd))]
    /\ UNCHANGED <<now, users, resendKey, ledger, pc, timeOfDay, today, ei,
                   mi, daysUntil, key, err, oks, overlapped, storeFaults,
                   sendFaults, runsStarted>>

SpecRoundTrip == Init /\ [][ApplyRoundTrip]_vars

(***************************************************************************)
(* The `today` of the three scheduled invocations of one civil day of       *)
(* America/New_York.  An instant is a number of hours since 1970-01-01      *)
(* 00:00 UTC.                                                               *)
(***************************************************************************)
\* the hour of the cron expression of each scheduled function
SlotHour(slot) ==
    CASE slot = "morning" -> 9 [] slot = "afternoon" -> 14
      [] slot = "evening" -> 19

\* day of the week of a day number, 0 = Sunday
DayOfWeek(n) == (n + 4) % 7

\* the first Sunday on or after a day
SundayFrom(n) == n + ((7 - DayOfWeek(n)) % 7)

\* the UTC offset, in hours, of America/New_York at 09:00 or later of a
\* civil day: daylight time from the second Sunday of March to the day
\* before the first Sunday of November
NewYorkOffset(civilDay) ==
    LET y == CivilFromDays(civilDay).y
        begin == SundayFrom(DaysFromCivil(y, 3, 8))
        end == SundayFrom(DaysFromCivil(y, 11, 1))
    IN  IF begin <= civilDay /\ civilDay < end THEN 0 - 4 ELSE 0 - 5

\* the time zones the functions process can run in: the runtime's default,
\* and the zone of the schedule if the deployment sets TZ to it
ProcessZones == {"UTC", "America/New_York"}

\* the instant at which the schedule fires a slot's function on a civil day
\* of America/New_York
FireInstant(civilDay, slot) ==
    civilDay * 24 + SlotHour(slot) - NewYorkOffset(civilDay)

\* new Date() followed by setHours(0, 0, 0, 0) in the zone of the process:
\* the instant of the start of the process's local day
StartOfDay(instant, zone, civilDay) ==
    LET offset == IF zone = "UTC" THEN 0 ELSE NewYorkOffset(civilDay)
        localDay == (instant + offset) \div 24
    IN  localDay * 24 - offset

\* today.toISOString().split('T')[0]: the UTC day of the instant
IsoDayOf(instant) == IsoDay(instant \div 24)

\* the local day number of `today`, which getDaysUntilEvent counts from
LocalDayOf(instant, zone, civilDay) ==
    LET offset == IF zone = "UTC" THEN 0 ELSE NewYorkOffset(civilDay)
    IN  (instant + offset) \div 24

\* the civil days drawn
ClockDays ==
    {DaysFromCivil(y, m, d) : y \in EvalYears, m \in 1..12,
                              d \in {1, 5, 14, 28}}

\* what one slot's invocation computes on a civil day
InvocationToday(civilDay, slot, zone) ==
    LET t == StartOfDay(FireInstant(civilDay, slot), zone, civilDay)
        day == LocalDayOf(t, zone, civilDay)
    IN  [today |-> day, dayString |-> IsoDayOf(t),
         daysUntil |-> getDaysUntilEvent(events[1], day)]

\* the three scheduled functions fire on a civil day
ApplyScheduledDay ==
    /\ probe.op = "none"
    /\ \E civilDay \in ClockDays, zone \in ProcessZones :
          probe' = [op |-> "scheduledDay", civilDay |-> civilDay,
                    zone |-> zone,
                    result |-> [slot \in Slots |->
                                   InvocationToday(civilDay, slot, zone)]]
    /\ UNCHANGED <<now, users, resendKey, ledger, pc, timeOfDay, today, ei,
                   mi, daysUntil, key, err, oks, overlapped, storeFaults,
                   sendFaults, runsStarted>>

SpecClock == Init /\ [][ApplyScheduledDay]_vars

(***************************************************************************)
(* An invocation that the platform ends (its timeout) while a delivery is   *)
(* under way: the provider call was made and the ledger entry is not yet    *)
(* written.                                                                 *)
(***************************************************************************)
\* the run is between the call of the provider and the write of the entry
SendUnderWay(r) ==
    /\ pc[r] \in {"send", "logSent"}
    /\ Destination(UserData(r), Method(r)) # ""
    /\ ~(Method(r) = "email" /\ ~resendKey)

\* the platform ends the invocation: a provider call still in flight has
\* delivered the message or not, no ledger entry is written, and the locals
\* are gone.  (probe notes the delivery that was under way.)
Cancel(r) ==
    /\ probe.op = "none"
    /\ SendUnderWay(r)
    /\ \/ pc[r] = "send" /\ oks' = Bump(oks, key[r])
       \/ UNCHANGED oks
    /\ probe' = [op |-> "cancel", ei |-> ei[r], daysUntil |-> daysUntil[r],
                 slot |-> timeOfDay[r], method |-> Method(r),
                 day |-> today[r], key |-> key[r]]
    /\ Abort(r)
    /\ UNCHANGED <<now, users, resendKey, ledger, overlapped, storeFaults,
                   sendFaults, runsStarted>>

\* the invocations of the scheduler one after another, any of which may be
\* ended by the platform
NextCancel ==
    \/ Tick
    \/ \E slot \in Slots : Start("r1", slot)
    \/ GetUser("r1")
    \/ CheckLog("r1")
    \/ Send("r1")
    \/ LogSent("r1")
    \/ LogFail("r1")
    \/ Cancel("r1")

SpecCancel == Init /\ [][NextCancel]_vars

(***************************************************************************)
(* The days-until of the dashboard (getUpcomingEvents and filteredEvents of *)
(* the dashboard pages) next to that of the scheduler.                      *)
(***************************************************************************)
\* the nextOccurrence of the map callback, as a day number: the event's
\* Gregorian month and day in today's year or, if that is before today, in
\* the next year; the Gregorian date itself for a non-recurring event
nextOccurrence(event, day) ==
    LET eventDate == event.gregorianDate[1]
        year == CivilFromDays(day).y
        thisYearDate == DaysFromCivil(year, eventDate.m, eventDate.d)
    IN  IF event.isRecurring
        THEN IF thisYearDate < day
             THEN DaysFromCivil(year + 1, eventDate.m, eventDate.d)
             ELSE thisYearDate
        ELSE DaysFromCivil(eventDate.y, eventDate.m, eventDate.d)

\* differenceInDays(nextOccurrence, today)
dashboardDaysUntil(event, day) == nextOccurrence(event, day) - day

\* event documents drawn: a yearly Gregorian event, one early in January, a
\* single Gregorian event, and a yearly Hebrew event (15 Tishrei 5783, which
\* was 2022-10-10)
DashboardEvents ==
    { [id |-> "g", userId |-> "u1", title |-> "Dana's birthday",
       gregorianDate |-> << [y |-> 2023, m |-> 6, d |-> 15] >>,
       useHebrewDate |-> FALSE, hebrewDate |-> << >>,
       isRecurring |-> TRUE, reminderConfig |-> << >>],
      [id |-> "j", userId |-> "u1", title |-> "Anniversary",
       gregorianDate |-> << [y |-> 2023, m |-> 1, d |-> 2] >>,
       useHebrewDate |-> FALSE, hebrewDate |-> << >>,
       isRecurring |-> TRUE, reminderConfig |-> << >>],
      [id |-> "s", userId |-> "u1", title |-> "Graduation",
       gregorianDate |-> << [y |-> 2024, m |-> 6, d |-> 15] >>,
       useHebrewDate |-> FALSE, hebrewDate |-> << >>,
       isRecurring |-> FALSE, reminderConfig |-> << >>],
      [id |-> "h", userId |-> "u1", title |-> "Yahrzeit",
       gregorianDate |-> << [y |-> 2022, m |-> 10, d |-> 10] >>,
       useHebrewDate |-> TRUE,
       hebrewDate |-> << [day |-> 15, month |-> 7, year |-> 5783] >>,
       isRecurring |-> TRUE, reminderConfig |-> << >>] }

\* the days drawn: those of the event probe, and the days around 2 January
DashboardTodays ==
    EvalTodays
    \cup {DaysFromCivil(y, 1, 2) + k :
             y \in EvalYears, k \in (0 - MaxWindow)..MaxWindow}

\* the dashboard and the scheduler look at an event on the same day
ApplyDaysUntilBoth ==
    /\ probe.op = "none"
    /\ \E event \in DashboardEvents, day \in DashboardTodays :
          probe' = [op |-> "daysUntilBoth", event |-> event, today |-> day,
                    scheduler |-> getDaysUntilEvent(event, day),
                    dashboard |-> dashboardDaysUntil(event, day)]
    /\ UNCHANGED <<now, users, resendKey, ledger, pc, timeOfDay, today, ei,
                   mi, daysUntil, key, err, oks, overlapped, storeFaults,
                   sendFaults, runsStarted>>

SpecDashboard == Init /\ [][ApplyDaysUntilBoth]_vars

(***************************************************************************)
(* Properties.                                                              *)
(***************************************************************************)
\* the part of a run's state that changes whenever the run takes a step
RunState(r) == <<pc[r], ei[r], mi[r], key[r]>>

Stepped(r) == RunState(r)' # RunState(r)

\* the ledger keys some run is between its send and its ledger write for
InFlight == {key[r] : r \in {q \in Runs : pc[q] \in {"logSent", "logFail"}}}

\* a provider is called in this step (it returns or it throws)
ProviderCalled == oks' # oks \/ sendFaults' # sendFaults

\* run r's ledger write is applied by the store in this step
WriteBy(r) ==
    /\ pc[r] \in {"logSent", "logFail"}
    /\ Stepped(r)
    /\ storeFaults' = storeFaults

\* the logKey of the run's current event for its i-th method
KeyOf(r, i) ==
    logKey(Event(r).id, daysUntil[r], timeOfDay[r],
           Methods(UserData(r))[i], today[r])

\* run r is at the ledger read of its second method; an earlier run has
\* logged that key, and so the first method's key before it
AtSecondOfLogged(r) ==
    /\ pc[r] = "check"
    /\ mi[r] = 2
    /\ key[r] \in DOMAIN ledger
    /\ KeyOf(r, 1) \in DOMAIN ledger

\* C1: when invocations run one after the other (none starts while another
\* is in flight) and no store call fails, a run is at a send or at a ledger
\* write only for a key without a ledger entry, so no provider is called for
\* a key that has an entry; no key is delivered twice, and every key that
\* was delivered has its entry or is about to get it.
C1_SequentialIdempotence ==
    (~overlapped /\ storeFaults = 0) =>
        /\ \A r \in Runs :
              pc[r] \in {"send", "logSent", "logFail"}
                 => key[r] \notin DOMAIN ledger
        /\ \A k \in DOMAIN oks :
              /\ oks[k] = 1
              /\ k \in DOMAIN ledger \/ k \in InFlight

\* a second run of the evening slot of the same day has passed the email
\* key that the first run sent and logged, without sending it again
C1_Witness ==
    /\ ~overlapped /\ storeFaults = 0 /\ sendFaults = 0
    /\ runsStarted = 2
    /\ AtSecondOfLogged("r1")
    /\ Event("r1").id = "c" /\ timeOfDay["r1"] = "evening"
    /\ Count(oks, KeyOf("r1", 1)) = 1

Kept(k) ==
    /\ k \in DOMAIN ledger'
    /\ ledger'[k] = ledger[k]

\* no step writes a key that has an entry
NoRewrite ==
    /\ \A k \in DOMAIN ledger : Kept(k)
    /\ \A r \in Runs : WriteBy(r) => key[r] \notin DOMAIN ledger

\* C3 as claimed: once an entry exists, no step of any invocation writes it
\* again, also when invocations overlap.
C3_WriteOnce == [][NoRewrite]_vars

\* C3 as amended: as long as no invocation has started while another was in
\* flight, an entry that exists is never written again.
C3_WriteOnceSequential == [][~overlapped' => NoRewrite]_vars

\* a later run has passed a 'failed' entry, which is as the first run wrote
\* it, and is at the read of a 'sent' entry
C3_Witness ==
    /\ ~overlapped
    /\ runsStarted = 2
    /\ sendFaults = 1
    /\ AtSecondOfLogged("r1")
    /\ ledger[KeyOf("r1", 1)].status = "failed"
    /\ ledger[KeyOf("r1", 1)].error = "Error: provider rejected the message"
    /\ ledger[key["r1"]].status = "sent"

\* C4: a run whose ledger read finds a 'failed' entry for its key goes on
\* without calling the provider for it, as for a 'sent' entry.
C4_FailedNotRetried ==
    [][\A r \in Runs :
          (/\ pc[r] = "check"
           /\ key[r] \in DOMAIN ledger
           /\ ledger[key[r]].status = "failed"
           /\ Stepped(r))
          => /\ pc'[r] # "send"
             /\ ~ProviderCalled
             /\ ledger' = ledger]_vars

\* a key whose send failed for want of the API key was passed by a later
\* run and not sent again
C4_Witness ==
    /\ ~overlapped
    /\ runsStarted = 2
    /\ sendFaults = 0
    /\ AtSecondOfLogged("r1")
    /\ ledger[KeyOf("r1", 1)].status = "failed"
    /\ Count(oks, KeyOf("r1", 1)) = 0

\* C5 as claimed: no ledger entry is created for a channel whose destination
\* the owner lacks.
C5_NoEntryWithoutDestination ==
    \A k \in DOMAIN ledger :
        Destination(users[ledger[k].userId], ledger[k].method) # ""

\* the offsets of the schedule table for a slot
FallbackSet(slot) == IF slot = "morning" THEN {3, 1, 0} ELSE {0}

Range(seq) == {seq[i] : i \in DOMAIN seq}

\* the due offsets of an event in a slot, as the rule is stated
ExpectedOffsets(event, slot) ==
    LET cfg == event.reminderConfig
    IN  IF cfg # << >> /\ cfg[1].isEnabled /\ cfg[1].reminders # << >>
        THEN {cfg[1].reminders[i].daysBefore :
                 i \in {j \in DOMAIN cfg[1].reminders :
                           cfg[1].reminders[j].timeOfDay = slot}}
        ELSE FallbackSet(slot)

\* the event has an owner and its daysUntil is a due offset of the slot
Gated(event, slot, day) ==
    /\ event.userId # ""
    /\ getDaysUntilEvent(event, day) \in ExpectedOffsets(event, slot)

\* the events after the run's current one that the run has still to process
LaterEvents(r) ==
    {i \in (ei[r] + 1)..Len(events) :
        Gated(events[i], timeOfDay[r], today[r])}

HasMoreMethods(r) == mi[r] < Len(Methods(UserData(r)))

\* the run goes on with the next channel of the event, else with the next
\* event to process, else it completes
MovedOn(r) ==
    IF HasMoreMethods(r)
    THEN pc'[r] = "check" /\ ei'[r] = ei[r] /\ mi'[r] = mi[r] + 1
    ELSE IF LaterEvents(r) = {}
    THEN pc'[r] = "done"
    ELSE /\ pc'[r] = "user"
         /\ ei'[r] \in LaterEvents(r)
         /\ \A i \in LaterEvents(r) : ei'[r] <= i

\* the send of the run's current channel throws in this step
SendThrows(r) ==
    /\ pc[r] = "send"
    /\ Stepped(r)
    /\ \/ sendFaults' > sendFaults
       \/ /\ Method(r) = "email"
          /\ Destination(UserData(r), Method(r)) # ""
          /\ ~resendKey

OnlyAt(k) ==
    \A j \in DOMAIN oks' \ {k} : Count(oks', j) = Count(oks, j)

\* C7: a run enters its send only by a ledger read that completed and
\* found no entry for the key; a ledger read that throws ends the run with
\* no provider call; and providers are called by no other step than the
\* send of a run, for that run's key.
C7_NoSendWithoutCheck ==
    [][/\ \A r \in Runs :
             /\ (pc'[r] = "send" /\ Stepped(r))
                => /\ pc[r] = "check"
                   /\ key'[r] = key[r]
                   /\ key[r] \notin DOMAIN ledger
                   /\ storeFaults' = storeFaults
             /\ (pc[r] = "check" /\ Stepped(r) /\ storeFaults' > storeFaults)
                => pc'[r] = "aborted" /\ ~ProviderCalled
       /\ ProviderCalled =>
             \E r \in Runs : pc[r] = "send" /\ Stepped(r) /\ OnlyAt(key[r])
      ]_vars

\* the run sent and logged its email key, then the ledger read of its next
\* key threw: the run ended and nothing was sent for that key
C7_Witness ==
    /\ runsStarted = 1
    /\ pc["r1"] = "aborted"
    /\ storeFaults = 1 /\ sendFaults = 0
    /\ \E k \in DOMAIN ledger :
          /\ ledger[k].method = "email" /\ ledger[k].status = "sent"
          /\ DOMAIN ledger = {k}
          /\ DOMAIN oks = {k}

\* the run has channels of its event or later events still to process
Remaining(r) ==
    \/ pc[r] # "user" /\ HasMoreMethods(r)
    \/ LaterEvents(r) # {}

\* C8 as claimed: a store error in the user-record read, the ledger read or
\* the ledger write does not end a run that has channels or events left.
C8_StoreErrorsAreLocal ==
    [][\A r \in Runs :
          (/\ pc[r] \in {"user", "check", "logSent", "logFail"}
           /\ Stepped(r)
           /\ storeFaults' > storeFaults
           /\ Remaining(r))
          => pc'[r] # "aborted"]_vars

\* only the ledger entry of key k may differ between this state and the next
LedgerOnlyAt(k) ==
    /\ DOMAIN ledger \subseteq DOMAIN ledger'
    /\ \A j \in DOMAIN ledger' \ {k} : j \in DOMAIN ledger /\ Kept(j)

\* C9: a run is in the channel loop only for an event that has an owner
\* whose user record exists and whose daysUntil is a due offset of the run's
\* slot; and a provider call or a ledger write is made only by a run in that
\* loop, for the key of its event, so no other event is sent for or logged.
C9_Gating ==
    /\ [](\A r \in Runs :
             pc[r] \in {"check", "send", "logSent", "logFail"} =>
                /\ Gated(Event(r), timeOfDay[r], today[r])
                /\ Event(r).userId \in DOMAIN users
                /\ daysUntil[r] = getDaysUntilEvent(Event(r), today[r])
                /\ key[r] = logKey(Event(r).id, daysUntil[r], timeOfDay[r],
                                   Method(r), today[r]))
    /\ [][(ProviderCalled \/ ledger' # ledger) =>
             \E r \in Runs :
                /\ pc[r] \in {"send", "logSent", "logFail"}
                /\ Stepped(r)
                /\ OnlyAt(key[r])
                /\ LedgerOnlyAt(key[r])]_vars

\* a completed evening run of the first day: only the event that is due and
\* has an owner with a user record was logged
C9_Witness ==
    /\ runsStarted = 1
    /\ pc["r1"] = "done"
    /\ now = Day0
    /\ DOMAIN ledger # {}
    /\ \A k \in DOMAIN ledger : ledger[k].eventId = "c"

\* C10: for an event whose reminder rules are enabled and non-empty,
\* daysToCheck holds exactly the daysBefore of the rules of the slot
\* (possibly none); for an event without rules it holds the slot's fallback
\* offsets.
C10_OffsetSelection ==
    probe.op = "daysToCheck" =>
        LET cfg == probe.event.reminderConfig
        IN  /\ (cfg # << >> /\ cfg[1].isEnabled /\ cfg[1].reminders # << >>)
               => Range(probe.result) =
                     {rule.daysBefore :
                         rule \in {x \in Range(cfg[1].reminders) :
                                      x.timeOfDay = probe.slot}}
            /\ (cfg = << >> \/ cfg[1].reminders = << >>)
               => Range(probe.result) = FallbackSet(probe.slot)

\* the rules [{0, morning}, {1, evening}] give {1} in the evening slot
C10_Witness ==
    /\ probe.op = "daysToCheck"
    /\ probe.event.reminderConfig =
          << [isEnabled |-> TRUE,
              reminders |-> << Rule(0, "morning"), Rule(1, "evening") >>] >>
    /\ probe.slot = "evening"
    /\ probe.result = <<1>>

\* the event of the probe has no rules of its own
NoRules(event) ==
    \/ event.reminderConfig = << >>
    \/ event.reminderConfig[1].reminders = << >>

\* the loop body was applied and computed a daysUntil
Evaluated == probe.op = "processEvent" /\ probe.result.daysUntil # << >>

\* C11: for an event without rules of its own, the morning invocation fires
\* exactly when daysUntil is 3, 1 or 0, and the afternoon and the evening
\* invocation exactly when daysUntil is 0.
C11_DefaultSchedule ==
    (Evaluated /\ NoRules(probe.event)) =>
        (probe.result.outcome = "fires"
            <=> probe.result.daysUntil[1] \in
                   (IF probe.slot = "morning" THEN {3, 1, 0} ELSE {0}))

\* three days ahead the morning invocation fires for an event without rules
C11_Witness ==
    /\ Evaluated
    /\ probe.event.reminderConfig = << >>
    /\ probe.slot = "morning"
    /\ probe.result.daysUntil = <<3>>
    /\ probe.result.outcome = "fires"

\* the event document has the date its calendar flag asks for
WellFormed(event) ==
    IF event.useHebrewDate THEN event.hebrewDate # << >>
    ELSE event.gregorianDate # << >>

\* the day of the occurrence of the event in the Gregorian year y, or in the
\* Hebrew year y for an event on the Hebrew calendar
OccurrenceIn(event, y) ==
    IF event.useHebrewDate
    THEN HDateGreg(event.hebrewDate[1].day, event.hebrewDate[1].month, y)
    ELSE DaysFromCivil(y, event.gregorianDate[1].m, event.gregorianDate[1].d)

\* the current year of the event's calendar on the day
CurrentYear(event, day) ==
    IF event.useHebrewDate THEN HebrewYearOf(day) ELSE CivilFromDays(day).y

\* the days from the day to the next occurrence on or after it: the
\* occurrence of the current year, or of the next year if that one is past
DaysToNextOccurrence(event, day) ==
    LET y == CurrentYear(event, day)
    IN  IF OccurrenceIn(event, y) < day
        THEN OccurrenceIn(event, y + 1) - day
        ELSE OccurrenceIn(event, y) - day

\* C12 as claimed: for a recurring event the daysUntil computed is never
\* negative and is the number of days to the next occurrence on or after
\* today, the occurrence being rebuilt in the next year when this year's
\* is past.
C12_YearRollover ==
    (Evaluated /\ WellFormed(probe.event) /\ probe.event.isRecurring) =>
        /\ probe.result.daysUntil[1] >= 0
        /\ probe.result.daysUntil[1] =
              DaysToNextOccurrence(probe.event, probe.today)

\* the day of the event's literal date, in the year the document gives
LiteralDay(event) ==
    IF event.useHebrewDate
    THEN OccurrenceIn(event, event.hebrewDate[1].year)
    ELSE OccurrenceIn(event, event.gregorianDate[1].y)

\* C13 as claimed: for an event that is not recurring, daysUntil is counted
\* to the literal date with no year substituted, so the event fires only
\* on days up to its literal date and never in a later year.
C13_NonRecurringLiteral ==
    (Evaluated /\ WellFormed(probe.event) /\ ~probe.event.isRecurring) =>
        /\ probe.result.daysUntil[1] = LiteralDay(probe.event) - probe.today
        /\ probe.result.outcome = "fires"
              => probe.today <= LiteralDay(probe.event)

\* the probe is Scenario A: a recurring Gregorian event with the date
\* 2023-06-15, evaluated on 2024-06-12
ScenarioA ==
    /\ probe.op = "processEvent"
    /\ ~probe.event.useHebrewDate
    /\ probe.event.isRecurring
    /\ probe.event.gregorianDate = << [y |-> 2023, m |-> 6, d |-> 15] >>
    /\ probe.today = DaysFromCivil(2024, 6, 12)

\* C14: in Scenario A daysUntil is 3, and under the default offsets the
\* morning invocation fires with the 'in 3 days' message.
C14_ScenarioA ==
    ScenarioA =>
        /\ probe.result.daysUntil = <<3>>
        /\ (probe.slot = "morning" /\ NoRules(probe.event)) =>
              /\ probe.result.outcome = "fires"
              /\ probe.result.message =
                    "Heads up! " \o probe.event.title
                    \o " is in 3 days. Start planning!"

\* Scenario A in the morning slot, for an event without rules of its own
C14_Witness ==
    /\ ScenarioA
    /\ probe.slot = "morning"
    /\ probe.event.reminderConfig = << >>
    /\ probe.event.hebrewDate = << >>
    /\ probe.result.outcome = "fires"
    /\ probe.result.message =
          "Heads up! Dana's birthday is in 3 days. Start planning!"

\* the probe is an event on 15 Tishrei of the Hebrew calendar, evaluated k
\* days before the Gregorian day of 15 Tishrei of the current Hebrew year
\* (15 Tishrei of 5784..5787 by the civil calendar; k is small, so today is
\* in the same Hebrew year as the date)
Tishrei15 ==
    { DaysFromCivil(2023, 9, 30), DaysFromCivil(2024, 10, 17),
      DaysFromCivil(2025, 10, 7), DaysFromCivil(2026, 9, 26) }

ScenarioB(k) ==
    /\ probe.op = "processEvent"
    /\ probe.event.useHebrewDate
    /\ probe.event.hebrewDate = << [day |-> 15, month |-> 7, year |-> 5783] >>
    /\ probe.today + k \in Tishrei15

TomorrowMessage(event) ==
    "Reminder: " \o event.title \o " is TOMORROW! Don't forget!"

\* C15 as claimed: two days before 15 Tishrei the morning invocation
\* computes daysUntil = 1 and sends the 'tomorrow' message.
C15_ScenarioB ==
    ScenarioB(2) =>
        /\ probe.result.daysUntil = <<1>>
        /\ (probe.slot = "morning" /\ NoRules(probe.event)) =>
              /\ probe.result.outcome = "fires"
              /\ probe.result.message = TomorrowMessage(probe.event)

\* C15 as amended: one day before 15 Tishrei daysUntil is 1 and the morning
\* invocation sends the 'tomorrow' message under the default offsets; two
\* days before, daysUntil is 2 and the default morning invocation sends
\* nothing.
C15_ScenarioBOneDayBefore ==
    /\ ScenarioB(1) =>
          /\ probe.result.daysUntil = <<1>>
          /\ (probe.slot = "morning" /\ NoRules(probe.event)) =>
                /\ probe.result.outcome = "fires"
                /\ probe.result.message = TomorrowMessage(probe.event)
    /\ ScenarioB(2) =>
          /\ probe.result.daysUntil = <<2>>
          /\ (probe.slot = "morning" /\ NoRules(probe.event)) =>
                probe.result.outcome = "skipped"

\* the day before 15 Tishrei 5785 (2024-10-16), morning slot, no rules
C15_Witness ==
    /\ ScenarioB(1)
    /\ probe.today = DaysFromCivil(2024, 10, 16)
    /\ probe.slot = "morning"
    /\ probe.event.reminderConfig = << >>
    /\ probe.result.outcome = "fires"
    /\ probe.result.message =
          "Reminder: Dana's birthday is TOMORROW! Don't forget!"

\* the policy table of the message body, by title, day count and slot
AdvanceText(title) == "Heads up! " \o title \o " is in 3 days. Start planning!"

TomorrowText(title) == "Reminder: " \o title \o " is TOMORROW! Don't forget!"

TodayText(title, slot) ==
    CASE slot = "morning" ->
            "Good morning! Today is " \o title \o "! Have a wonderful day!"
      [] slot = "afternoon" ->
            "Afternoon reminder: It's " \o title
            \o " today! Hope it's going great!"
      [] slot = "evening" ->
            "Evening check-in: " \o title
            \o " is today! Hope you celebrated well!"

GenericText(title, n) ==
    "Reminder: " \o title \o " is coming up in " \o ToString(n) \o " days."

\* C16: the message is determined by (title, daysUntil, slot): the advance
\* text for 3, the tomorrow text for 1, the slot's 'today' text for 0, and
\* the generic 'in N days' text for every other daysUntil.
C16_MessagePolicy ==
    probe.op = "generateMessage" =>
        LET title == probe.event.title
            n == probe.daysUntil
        IN  /\ n = 3 => probe.result = AdvanceText(title)
            /\ n = 1 => probe.result = TomorrowText(title)
            /\ n = 0 => probe.result = TodayText(title, probe.slot)
            /\ n \notin {0, 1, 3} => probe.result = GenericText(title, n)

\* the afternoon text on the day of the event
C16_Witness ==
    /\ probe.op = "generateMessage"
    /\ probe.daysUntil = 0
    /\ probe.slot = "afternoon"
    /\ probe.result =
          "Afternoon reminder: It's Anniversary today! Hope it's going great!"

\* <eventId>_<offsetDays>_<timeSlot>_<channel>_<YYYY-MM-DD>
TwoDigits(n) == IF n < 10 THEN "0" \o ToString(n) ELSE ToString(n)

KeyText(in) ==
    in.eventId \o "_" \o ToString(in.daysUntil) \o "_" \o in.timeOfDay
    \o "_" \o in.method \o "_" \o ToString(in.today.y) \o "-"
    \o TwoDigits(in.today.m) \o "-" \o TwoDigits(in.today.d)

\* C17: the key is <eventId>_<offsetDays>_<timeSlot>_<channel>_<YYYY-MM-DD>
\* of its five inputs, so two invocations that compute the same delivery
\* build the same key.
C17_KeyConstruction ==
    /\ probe.op \in {"logKey", "logKeyAgain"} =>
          probe.firstKey = KeyText(probe.first)
    /\ probe.op = "logKeyAgain" =>
          /\ probe.secondKey = KeyText(probe.second)
          /\ probe.second = probe.first => probe.secondKey = probe.firstKey

\* two invocations built the key of the same evening email delivery
C17_Witness ==
    /\ probe.op = "logKeyAgain"
    /\ probe.second = probe.first
    /\ probe.firstKey = "b_1_evening_email_2024-12-05"
    /\ probe.secondKey = "b_1_evening_email_2024-12-05"

\* a step of one of the test endpoints
TestStep == probe' # probe /\ probe'.op \in {"testReminder", "POST"}

\* C18: a step of the test endpoints, taken at any moment of the scheduler's
\* runs, leaves the ledger as it was, and with it everything a scheduled run
\* reads or writes, so that no run is suppressed or repeated because of it.
C18_TestBypassesLedger ==
    [][TestStep =>
          UNCHANGED <<ledger, users, resendKey, now, pc, timeOfDay, today,
                      ei, mi, daysUntil, key, err, oks, storeFaults,
                      sendFaults, runsStarted>>]_vars

\* a test request was delivered by its provider before the first run of the
\* scheduler, and a run after it delivered a reminder and logged it
C18_Witness ==
    /\ probe.op \in {"testReminder", "POST"}
    /\ probe.phase = "done"
    /\ probe.early
    /\ probe.providerCalled
    /\ probe.response.success
    /\ \E k \in DOMAIN ledger : ledger[k].status = "sent" /\ Count(oks, k) = 1

\* the channel a request asks for: chat when it names none
AskedChannel(request) ==
    IF request.method = << >> THEN "whatsapp" ELSE request.method[1]

\* the request lacks the message, or the destination its channel needs
Incomplete ==
    \/ probe.request.message = ""
    \/ /\ probe.op = "POST"
       /\ probe.request.to = ""
    \/ /\ probe.op = "testReminder"
       /\ AskedChannel(probe.request) = "email"
       /\ probe.request.email = ""
    \/ /\ probe.op = "testReminder"
       /\ AskedChannel(probe.request) # "email"
       /\ probe.request.phone = ""

\* C19: a request without a message or without the destination of its
\* channel is answered with an error and no provider is called; a request
\* that names no channel goes to the chat channel; a provider or
\* configuration error is answered with an error payload; every other
\* request is answered {success: true, method, result}.
C19_TestOutcomes ==
    probe.op \in {"testReminder", "POST"} =>
        /\ Incomplete =>
              /\ ~probe.providerCalled
              /\ probe.phase = "done"
              /\ probe.response.status \in {400, 500}
              /\ probe.failure # "body" => probe.response.status = 400
              /\ ~probe.response.success
        /\ (probe.request.method = << >> /\ probe.providerCalled) =>
              probe.channel = "whatsapp"
        /\ (probe.phase = "done" /\ probe.failure # "none") =>
              /\ probe.response.status = 500
              /\ probe.response.error # ""
              /\ ~probe.response.success
        /\ (probe.failure \in {"config", "body"}) => ~probe.providerCalled
        /\ (probe.phase = "done" /\ probe.failure = "none" /\ ~Incomplete) =>
              /\ probe.providerCalled
              /\ probe.response.status = 200
              /\ probe.response.success
              /\ probe.response.method = AskedChannel(probe.request)
              /\ probe.response.result \in {"SM1", "re_1", "sent"}
              /\ probe.response.error = ""

\* a request that names no channel was delivered by the chat provider
C19_Witness ==
    /\ probe.op = "testReminder"
    /\ probe.phase = "done"
    /\ probe.request.method = << >>
    /\ probe.channel = "whatsapp"
    /\ probe.response =
          [status |-> 200, text |-> "", error |-> "", success |-> TRUE,
           method |-> "whatsapp", result |-> "SM1"]

\* an event record that is malformed: flagged Hebrew without a hebrewDate,
\* or without a gregorianDate
Malformed(event) ==
    \/ event.useHebrewDate /\ event.hebrewDate = << >>
    \/ event.gregorianDate = << >>

\* C20: a malformed event is skipped by the invocation: it raises nothing
\* that ends the loop over the events, and nothing is sent for it.
C20_MalformedSkipped ==
    (probe.op = "processEvent" /\ Malformed(probe.event)) =>
        probe.result.outcome = "skipped"

\* C21: the date getNextHebrewOccurrence returns for a day/month pair is
\* never before the day of the call.
C21_NextOccurrenceNotPast ==
    probe.op \in {"getNextHebrewOccurrence",
                  "getNextHebrewOccurrenceBefore"} =>
        /\ probe.op = "getNextHebrewOccurrence" =>
              probe.result.outcome = "returns"
        /\ probe.result.outcome = "returns" =>
              probe.result.date[1] >= probe.today

\* called the day after 15 Tishrei 5785 (2024-10-17), the function returns
\* 15 Tishrei 5786 (2025-10-07)
C21_Witness ==
    /\ probe.op = "getNextHebrewOccurrence"
    /\ probe.day = 15
    /\ probe.month = 7
    /\ probe.today = DaysFromCivil(2024, 10, 18)
    /\ probe.result.date = << DaysFromCivil(2025, 10, 7) >>

\* the years of the 19-year cycle that have an Adar II
Intercalated(year) == year % 19 \in {0, 3, 6, 8, 11, 14, 17}

\* C22: a Hebrew date converted to a Gregorian date and back is the same
\* day, month and year; a date of Adar II in a year without one comes back
\* as the same day of Adar of that year.
C22_RoundTrip ==
    probe.op = "roundTrip" =>
        LET d == probe.hebrewDate
            r == probe.result
        IN  IF d.month = 13 /\ ~Intercalated(d.year)
            THEN r.day = d.day /\ r.month = 12 /\ r.year = d.year
            ELSE r.day = d.day /\ r.month = d.month /\ r.year = d.year

\* 15 Tishrei 5785 is 2024-10-17 and comes back as 15 Tishrei 5785
C22_Witness ==
    /\ probe.op = "roundTrip"
    /\ probe.hebrewDate = [day |-> 15, month |-> 7, year |-> 5785]
    /\ probe.gregorian = DaysFromCivil(2024, 10, 17)
    /\ probe.result.day = 15
    /\ probe.result.month = 7
    /\ probe.result.year = 5785

\* C23: the three invocations of one civil day of America/New_York have the
\* same `today`, that civil day, and so the same daysUntil for an event and
\* the same day string in their keys.
C23_SingleToday ==
    probe.op = "scheduledDay" =>
        \A slot \in Slots :
            /\ probe.result[slot].today = probe.civilDay
            /\ probe.result[slot].dayString = IsoDay(probe.civilDay)
            /\ probe.result[slot].daysUntil
                  = probe.result["morning"].daysUntil

\* the invocation of a slot on a day reaches the event at index i with the
\* offset du: the loop of processReminders finds the event due with that
\* daysUntil
Attempts(i, du, slot, day) ==
    /\ getDaysUntilEvent(events[i], day) = du
    /\ IsDue(events[i], slot, du)

\* C24: a delivery that was under way when its invocation was cancelled is
\* attempted again (same event, offset, slot and channel) by the invocation
\* of the same slot on the next day.
C24_RetryNextDay ==
    probe.op = "cancel" =>
        Attempts(probe.ei, probe.daysUntil, probe.slot, probe.day + 1)

\* a send attempt for run r's key has finished: the provider returned for
\* the key, or the attempt threw and the run is in its catch block
AttemptFinished(r) ==
    \/ pc[r] = "logSent" /\ Count(oks, key[r]) >= 1
    \/ pc[r] = "logFail" /\ err[r] # ""

\* C25: within an invocation the ledger read of a key comes before the send
\* for it, and a ledger entry is written for a key only after a send attempt
\* for that key has finished, with success or with an error.
C25_Ordering ==
    [][\A r \in Runs :
          /\ (pc'[r] = "send" /\ Stepped(r)) =>
                pc[r] = "check" /\ key'[r] = key[r]
          /\ (pc'[r] \in {"logSent", "logFail"} /\ Stepped(r)
              /\ pc[r] \notin {"logSent", "logFail"}) =>
                pc[r] = "send" /\ key'[r] = key[r]
          /\ WriteBy(r) => AttemptFinished(r)
      ]_vars

\* C26: a ledger entry has status 'sent' only if the provider returned for
\* its key, and status 'failed' only if the provider call for its key threw.
C26_StatusReflectsOutcome ==
    \A k \in DOMAIN ledger :
        /\ ledger[k].status = "sent" => Count(oks, k) >= 1
        /\ ledger[k].status = "failed" =>
              /\ Count(oks, k) = 0
              /\ ledger[k].error = "Error: provider rejected the message"

\* C27: for an event and a `today`, the daysUntil of the scheduler equals
\* the daysUntil the dashboard shows.
C27_SchedulerMatchesDashboard ==
    probe.op = "daysUntilBoth" => probe.scheduler = probe.dashboard

\* the reminderConfig replaces the fallback offsets
Replaces(cfg) == cfg # << >> /\ cfg[1].isEnabled /\ cfg[1].reminders # << >>

\* C28: for an event whose reminderConfig is disabled, with or without
\* rules, the due offsets are the fallback offsets of the slot; the due
\* offsets differ from the fallback only for an enabled config with rules.
C28_DisabledFallsBack ==
    probe.op = "daysToCheck" =>
        LET cfg == probe.event.reminderConfig
            fallback == IF probe.slot = "morning" THEN <<3, 1, 0>> ELSE <<0>>
        IN  /\ (cfg # << >> /\ ~cfg[1].isEnabled) => probe.result = fallback
            /\ probe.result # fallback => Replaces(cfg)
            /\ (probe.result = fallback /\ probe.slot # "morning") =>
                  (IsDue(probe.event, probe.slot, 0)
                   /\ ~IsDue(probe.event, probe.slot, 1))

\* a disabled config with an evening rule: the morning offsets are 3, 1, 0
C28_Witness ==
    /\ probe.op = "daysToCheck"
    /\ probe.event.reminderConfig =
          << [isEnabled |-> FALSE, reminders |-> << Rule(1, "evening") >>] >>
    /\ probe.slot = "morning"
    /\ probe.result = <<3, 1, 0>>

\* C29: two deliveries that differ in event id, offset, slot, channel or day
\* have different ledger keys.
C29_KeysInjective ==
    probe.op = "logKeyAgain" =>
        (probe.first # probe.second => probe.firstKey # probe.secondKey)

\* the same delivery on two days has two keys
C29_Witness ==
    /\ probe.op = "logKeyAgain"
    /\ probe.first.today # probe.second.today
    /\ probe.firstKey = "a_0_morning_email_2024-06-14"
    /\ probe.secondKey = "a_0_morning_email_2024-12-05"

\* the (event, channel) units that are due for a slot on a day and have a
\* destination, as ledger keys
DueKeys(slot, day) ==
    {logKey(events[i].id, getDaysUntilEvent(events[i], day), slot,
            Methods(users[events[i].userId])[j], day) :
        <<i, j>> \in
           {p \in (1..Len(events)) \X (1..3) :
               /\ events[p[1]].userId \in DOMAIN users
               /\ IsDue(events[p[1]], slot,
                        getDaysUntilEvent(events[p[1]], day))
               /\ p[2] <= Len(Methods(users[events[p[1]].userId]))
               /\ Destination(users[events[p[1]].userId],
                              Methods(users[events[p[1]].userId])[p[2]])
                     # ""}}

\* run r returns in this step
Returns(r) == Active(r) /\ pc'[r] = "done"

====
